---- MODULE Spec2Model ----
(***************************************************************************)
(* Verification model of the NyaySetu legal-chat backend.                  *)
(*                                                                         *)
(* Policy engine (src/policy.py).  A Python string is modelled as a        *)
(* sequence of text pieces; a piece is a literal fragment of text that is  *)
(* never split further.  str.lower(), str.strip(), str.split(),            *)
(* str.startswith() and the substring test `k in t` are computed on piece  *)
(* sequences: lower() maps every piece to its lowercase form, strip()      *)
(* drops leading and trailing whitespace pieces, and `k in t` holds when   *)
(* the pieces of k occur contiguously in t.  The piece alphabets are       *)
(* chosen so that a keyword of the source occurs in a text only as whole   *)
(* pieces.  Devanagari literals are written as ASCII transliterations      *)
(* with the prefix "hi:"; lower() leaves them unchanged, as in Python.     *)
(***************************************************************************)
EXTENDS Integers, Sequences, FiniteSets, TLC

VARIABLES question, candidate, language, result, text, steps, pc, env, db

vars == <<question, candidate, language, result, text, steps, pc, env, db>>

(***************************************************************************)
(* Bounds of the model.                                                    *)
(***************************************************************************)
MaxQLen == 2
MaxALen == 2
MaxSteps == 2

(***************************************************************************)
(* Values outside the texts.                                               *)
(***************************************************************************)
None == <<"<None>">>
NoResult == <<"<not called>">>
\* the collaborators and the store, where an operation has none
NoEnv == <<>>
NoDb == <<>>

(***************************************************************************)
(* Python string primitives on piece sequences.                            *)
(***************************************************************************)
WhitespacePieces == {" ", "\n"}

LowerPiece(p) ==
  CASE p = "Who are you" -> "who are you"
    [] p = "What is" -> "what is"
    [] p = "Explain" -> "explain"
    [] p = "2FA" -> "2fa"
    [] p = "ChatGPT" -> "chatgpt"
    [] p = "I am a language model" -> "i am a language model"
    [] p = "Court" -> "court"
    [] p = "Asha@Mail.in" -> "asha@mail.in"
    [] p = "Section" -> "section"
    [] p = "BNS" -> "bns"
    [] p = "S" -> "s"
    [] p = "BSA" -> "bsa"
    [] p = "**Source and Disclaimer:**" -> "**source and disclaimer:**"
    [] p = "- This information is based on Indian legal framework: Bharatiya Nyaya Sanhita ("
         -> "- this information is based on indian legal framework: bharatiya nyaya sanhita ("
    [] p = "), 2023, Bharatiya Nagarik Suraksha Sanhita ("
         -> "), 2023, bharatiya nagarik suraksha sanhita ("
    [] p = "), 2023, and Bharatiya Sakshya Adhiniyam ("
         -> "), 2023, and bharatiya sakshya adhiniyam ("
    [] p = "- This is general information only. For specific cases, consult a qualified lawyer"
         -> "- this is general information only. for specific cases, consult a qualified lawyer"
    [] p = "- Laws are complex and may vary by case and jurisdiction"
         -> "- laws are complex and may vary by case and jurisdiction"
    [] p = "I am a legal chat bot" -> "i am a legal chat bot"
    [] p = "My function is to provide information on legal topics. Please frame your question accordingly."
         -> "my function is to provide information on legal topics. please frame your question accordingly."
    [] p = "FIR" -> "fir"
    [] p = "Basic" -> "basic"
    [] p = "Are you a bot" -> "are you a bot"
    [] p = "OpenAI" -> "openai"
    [] p = " API key not set" -> " api key not set"
    [] p = ". Set " -> ". set "
    [] p = "OPENAI" -> "openai"
    [] p = "_API_KEY environment variable." -> "_api_key environment variable."
    [] p = "Error" -> "error"
    [] p = "I apologize, but I'm currently unable to provide detailed "
         -> "i apologize, but i'm currently unable to provide detailed "
    [] p = " advice. Please consult a qualified " -> " advice. please consult a qualified "
    [] p = "I can only provide " -> "i can only provide "
    [] p = " knowledge. Please ask a " -> " knowledge. please ask a "
    [] p = "Could you please provide a question that addresses a specific "
         -> "could you please provide a question that addresses a specific "
    [] p = "**Tenant " -> "**tenant "
    [] p = "Rights" -> "rights"
    [] p = " in India - Comprehensive Guide** [...] Approach the Rent Authority "
         -> " in india - comprehensive guide** [...] approach the rent authority "
    [] p = " the Model Tenancy Act [...]" -> " the model tenancy act [...]"
    [] p = "**Cybercrime " -> "**cybercrime "
    [] p = "Law" -> "law"
    [] p = " & Remedies in India - Comprehensive Guide** [...] "
         -> " & remedies in india - comprehensive guide** [...] "
    [] p = "**Your " -> "**your "
    [] p = " if Arrested (India) - Comprehensive Guide** [...] "
         -> " if arrested (india) - comprehensive guide** [...] "
    [] p = "Article" -> "article"
    [] p = " 22 [...]" -> " 22 [...]"
    [] p = "**Filing " -> "**filing "
    [] p = " & Criminal Procedure (" -> " & criminal procedure ("
    [] p = "**Family " -> "**family "
    [] p = ": Divorce, Custody & Maintenance** [...] " -> ": divorce, custody & maintenance** [...] "
    [] p = "**" -> "**"
    [] p = "Contract" -> "contract"
    [] p = " & Employment Remedies** [...]" -> " & employment remedies** [...]"
    [] p = "**Consumer Protection Act, 2019 Workflow** [...] consumer " -> "**consumer protection act, 2019 workflow** [...] consumer "
    [] p = "**General " -> "**general "
    [] p = "Legal" -> "legal"
    [] p = " Guidance (India)** [...] " -> " guidance (india)** [...] "
    [] p = " 14-18: Equality before " -> " 14-18: equality before "
    [] p = "I" -> "i"
    [] p = "N" -> "n"
    [] OTHER -> p

lower(s) == [i \in 1..Len(s) |-> LowerPiece(s[i])]

RECURSIVE lstrip(_)
lstrip(s) ==
  IF s # <<>> /\ Head(s) \in WhitespacePieces THEN lstrip(Tail(s)) ELSE s

RECURSIVE rstrip(_)
rstrip(s) ==
  IF s # <<>> /\ s[Len(s)] \in WhitespacePieces
    THEN rstrip(SubSeq(s, 1, Len(s) - 1))
    ELSE s

strip(s) == rstrip(lstrip(s))

\* k in t
In(k, t) == \E i \in 1..(Len(t) - Len(k) + 1) : SubSeq(t, i, i + Len(k) - 1) = k

startswith(t, k) == Len(t) >= Len(k) /\ SubSeq(t, 1, Len(k)) = k

\* (x or '')
OrEmpty(x) == IF x = None THEN <<>> ELSE x

\* a list of one-piece terms
Terms(S) == {<<w>> : w \in S}

(***************************************************************************)
(* src/policy.py: fixed sentences.                                         *)
(***************************************************************************)
IdentityEn == <<"I am a legal chat bot">>
IdentityHi == <<"hi:main kanooni jankari mein visheshagyata wala ek AI sahayak hoon.">>
RefusalEn ==
  <<"My function is to provide information on legal topics. Please frame your question accordingly.">>
RefusalHi ==
  <<"hi:main keval kanooni jankari pradan kar sakta/sakti hoon. kripya ek kanooni prashn poochhen.">>

\* language.startswith('hi'); a language code is a sequence of characters
IsHindi(lang) == startswith(lang, <<"h", "i">>)

\* the language is ignored
IdentitySentence_EnglishOnly(lang) == IdentityEn

IdentitySentence(lang) == IF IsHindi(lang) THEN IdentityHi ELSE IdentityEn

\* the language is ignored
RefusalSentence_EnglishOnly(lang) == RefusalEn

RefusalSentence(lang) == IF IsHindi(lang) THEN RefusalHi ELSE RefusalEn

(***************************************************************************)
(* src/policy.py: is_identity_question.                                    *)
(***************************************************************************)
IdentityTriggers ==
  Terms({"who are you", "what are you", "who is this", "identify yourself",
         "what is your name", "are you a bot"})

\* the triggers searched in the text as typed
is_identity_question_CaseSensitive(txt) ==
  LET t == strip(OrEmpty(txt))
  IN  \E trigger \in IdentityTriggers : In(trigger, t)

is_identity_question(txt) ==
  LET t == lower(strip(OrEmpty(txt)))
  IN  \E trigger \in IdentityTriggers : In(trigger, t)

(***************************************************************************)
(* src/policy.py: is_legal_question.  The English terms of legal_keywords  *)
(* and its Hindi terms (transliterated); the terms in the other scripts    *)
(* are matched the same way and occur in no text of the model.             *)
(***************************************************************************)
QuestionLegalKeywords ==
  Terms({"law", "legal", "rights", "police", "court", "complaint", "fir",
         "appeal", "rti", "eviction", "divorce", "custody", "contract",
         "agreement", "charge", "arrest", "evidence", "bail", "sue",
         "lawsuit", "bns", "bharatiya nyaya sanhita",
         "bharatiya nagarik suraksha sanhita", "bsa",
         "bharatiya sakshya adhiniyam", "ipc", "crpc", "evidence act",
         "constitution", "article", "fundamental rights", "legal aid",
         "advocate", "lawyer", "judgment", "verdict", "legal precedent",
         "case law", "statute", "act", "section",
         "hi:kanoon", "hi:kanooni", "hi:adhikar", "hi:police", "hi:adalat",
         "hi:shikayat", "hi:giraftar", "hi:zamanat", "hi:vakeel", "hi:nyay",
         "hi:talaq", "hi:sanrakshan", "hi:anubandh", "hi:samjhauta",
         "hi:aarop", "hi:sakshya", "hi:mukadma", "hi:samvidhan",
         "hi:anuchchhed", "hi:maulik adhikar", "hi:kanooni sahayata",
         "hi:nyayadhish", "hi:faisla", "hi:kanooni misal", "hi:adhiniyam",
         "hi:dhara", "hi:bharatiya nyay sanhita",
         "hi:bharatiya nagarik suraksha sanhita",
         "hi:bharatiya sakshya adhiniyam"})
    \cup {<<"bns", "s">>}

\* the number of words in a piece: a whitespace piece has none, every other
\* piece of a question has no leading or trailing whitespace
WordsOfPiece(p) ==
  CASE p \in WhitespacePieces -> 0
    [] p = "who are you" -> 3
    [] p = "are you a bot" -> 4
    [] p = "in plain words" -> 3
    [] p = "what is" -> 2
    [] OTHER -> 1

RECURSIVE SumWords(_)
SumWords(s) == IF s = <<>> THEN 0 ELSE WordsOfPiece(Head(s)) + SumWords(Tail(s))

\* len(t.split()): adjacent non-whitespace pieces share one word
SplitLen(t) ==
  SumWords(t)
    - Cardinality({i \in 1..(Len(t) - 1) :
                     t[i] \notin WhitespacePieces /\ t[i + 1] \notin WhitespacePieces})

\* the keyword search without the rule for short identity questions
is_legal_question_KeywordsOnly(txt) ==
  LET t == lower(strip(OrEmpty(txt)))
  IN  \E k \in QuestionLegalKeywords : In(k, t)

is_legal_question(txt) ==
  LET t == lower(strip(OrEmpty(txt)))
  IN  IF SplitLen(t) <= 5 /\ is_identity_question(t)
        THEN FALSE
        ELSE \E k \in QuestionLegalKeywords : In(k, t)

(***************************************************************************)
(* src/policy.py: _has_source_attribution, _add_source_attribution.        *)
(***************************************************************************)
source_indicators ==
  Terms({"according to", "as per", "under", "section", "article", "act of",
         "law of", "bns", "bsa", "ipc", "crpc", "constitution",
         "supreme court", "high court", "judgment", "case law",
         "legal precedent", "statute",
         "hi:ke anusar", "hi:ke tahat", "hi:dhara", "hi:anuchchhed",
         "hi:adhiniyam", "hi:kanoon ke anusar", "hi:bharatiya nyay sanhita",
         "hi:bharatiya nagarik suraksha sanhita",
         "hi:bharatiya sakshya adhiniyam", "hi:supreme court",
         "hi:high court", "hi:faisla", "hi:kanooni misal", "hi:samvidhan"})
    \cup {<<"bns", "s">>}

\* the indicators are searched in the text as given, not in its lowercase
_has_source_attribution_CaseSensitive(txt) ==
  \E indicator \in source_indicators : In(indicator, txt)

_has_source_attribution(txt) ==
  LET text_lower == lower(txt)
  IN  \E indicator \in source_indicators : In(indicator, text_lower)

DisclaimerEn ==
  <<"\n", "\n", "**Source and Disclaimer:**", "\n",
    "- This information is based on Indian legal framework: Bharatiya Nyaya Sanhita (",
    "BNS", "), 2023, Bharatiya Nagarik Suraksha Sanhita (", "BNS", "S",
    "), 2023, and Bharatiya Sakshya Adhiniyam (", "BSA", "), 2023", "\n",
    "- This is general information only. For specific cases, consult a qualified lawyer",
    "\n", "- Laws are complex and may vary by case and jurisdiction">>

DisclaimerHi ==
  <<"\n", "\n", "hi:**srot aur asvikaran:**", "\n",
    "hi:- yah jankari bharatiya kanooni dhanche ke adhar par hai: ",
    "hi:bharatiya nyay sanhita", " ", "(", "BNS", "), 2023, ",
    "hi:bharatiya nagarik suraksha sanhita", " ", "(", "BNS", "S",
    "), 2023, ", "hi:aur ", "hi:bharatiya sakshya adhiniyam", " ", "(",
    "BSA", "), 2023", "\n",
    "hi:- yah samanya jankari hai aur vishisht mamlon ke liye yogya vakeel se salah len",
    "\n", "hi:- kanoon jatil hain aur mamle ", "hi:ke anusar",
    "hi: bhinn ho sakte hain">>

\* the disclaimer is built and not appended
_add_source_attribution_NoDisclaimer(txt, lang) == txt

_add_source_attribution(txt, lang) ==
  txt \o (IF IsHindi(lang) THEN DisclaimerHi ELSE DisclaimerEn)

\* the disclaimer is appended without the check
EnforceAttribution_Always(ans, lang) == _add_source_attribution(ans, lang)

\* the check is made and nothing is appended
EnforceAttribution_Skip(ans, lang) == ans

\* if not _has_source_attribution(ans): ans = _add_source_attribution(ans, language)
EnforceAttribution(ans, lang) ==
  IF ~_has_source_attribution(ans) THEN _add_source_attribution(ans, lang) ELSE ans

(***************************************************************************)
(* src/policy.py: apply_policy.                                            *)
(***************************************************************************)
identity_patterns ==
  Terms({"i am chatgpt", "i am gpt", "i am a language model", "i am an ai",
         "i am ai", "i am a chatbot", "this is chatgpt", "chatgpt", "openai",
         "this is gemini", "this is gemma", "i am an llm"})

AnswerLegalKeywords ==
  Terms({"law", "legal", "court", "police", "rights", "complaint", "fir",
         "appeal", "contract", "bns", "bsa",
         "hi:kanoon", "hi:kanooni", "hi:adalat", "hi:police", "hi:adhikar",
         "hi:shikayat", "hi:giraftar", "hi:anubandh",
         "hi:bharatiya nyay sanhita",
         "hi:bharatiya nagarik suraksha sanhita",
         "hi:bharatiya sakshya adhiniyam"})
    \cup {<<"bns", "s">>}

\* the lowercased copy is kept as the answer
TrimmedAnswer_Lowered(original_answer) == lower(strip(OrEmpty(original_answer)))

\* ans = (original_answer or '').strip()
TrimmedAnswer(original_answer) == strip(OrEmpty(original_answer))

\* only the questions that start with "what is"
IsDefinitionRequest_WhatIsOnly(user_question) ==
  startswith(lower(user_question), <<"what is">>)

\* user_question.lower().startswith("what is") or "explain" in user_question.lower()
IsDefinitionRequest(user_question) ==
  \/ startswith(lower(user_question), <<"what is">>)
  \/ In(<<"explain">>, lower(user_question))

\* apply_policy without the check of the answer for legal content
apply_policy_NoRelevanceGate(original_answer, user_question, lang) ==
  IF is_identity_question(user_question)
    THEN IdentitySentence(lang)
    ELSE
      LET ans == TrimmedAnswer(original_answer)
          lower_ans == lower(ans)
      IN  IF IsDefinitionRequest(user_question)
            THEN EnforceAttribution(ans, lang)
          ELSE IF ~is_legal_question(user_question)
            THEN RefusalSentence(lang)
          ELSE IF \E pat \in identity_patterns : In(pat, lower_ans)
            THEN IdentitySentence(lang)
          ELSE EnforceAttribution(ans, lang)

apply_policy(original_answer, user_question, lang) ==
  IF is_identity_question(user_question)
    THEN IdentitySentence(lang)
    ELSE
      LET ans == TrimmedAnswer(original_answer)
          lower_ans == lower(ans)
      IN  IF IsDefinitionRequest(user_question)
            THEN EnforceAttribution(ans, lang)
          ELSE IF ~is_legal_question(user_question)
            THEN RefusalSentence(lang)
          ELSE IF \E pat \in identity_patterns : In(pat, lower_ans)
            THEN IdentitySentence(lang)
          ELSE IF ~(\E k \in AnswerLegalKeywords : In(k, lower_ans))
            THEN RefusalSentence(lang)
          ELSE EnforceAttribution(ans, lang)

(***************************************************************************)
(* Inputs: the texts over the piece alphabets, up to the bounds.           *)
(***************************************************************************)
QuestionPieces == {" ", "Who are you", "What is", "Explain", "law", "weather", "2FA"}

AnswerPieces ==
  {" ", "ChatGPT", "I am a language model", "Court", "Section", "BNS", "sunny"}

Languages ==
  {<<"e", "n">>, <<"h", "i", "-", "I", "N">>, <<"t", "a">>}

BoundedSeq(S, n) == UNION {[1..k -> S] : k \in 0..n}

Questions == BoundedSeq(QuestionPieces, MaxQLen)

Candidates == BoundedSeq(AnswerPieces, MaxALen) \cup {None}

Init ==
  /\ question \in Questions
  /\ candidate \in Candidates
  /\ language \in Languages
  /\ result = NoResult
  /\ text = OrEmpty(candidate)
  /\ steps = 0
  /\ pc = "start"
  /\ env = NoEnv
  /\ db = NoDb

\* one call apply_policy(candidate, question, language)
ApplyPolicy ==
  /\ pc = "start"
  /\ result' = apply_policy(candidate, question, language)
  /\ pc' = "done"
  /\ UNCHANGED <<question, candidate, language, text, steps, env, db>>

\* one application of the attribution step of apply_policy to a text
AttributionStep ==
  /\ pc \in {"start", "attributed"}
  /\ steps < MaxSteps
  /\ text' = EnforceAttribution(text, language)
  /\ steps' = steps + 1
  /\ pc' = "attributed"
  /\ UNCHANGED <<question, candidate, language, result, env, db>>

Next == ApplyPolicy \/ AttributionStep

Spec == Init /\ [][Next]_vars

(***************************************************************************)
(* Properties of apply_policy.                                             *)
(***************************************************************************)
Called == pc = "done"

FixedIdentity == IF IsHindi(language) THEN IdentityHi ELSE IdentityEn

FixedRefusal == IF IsHindi(language) THEN RefusalHi ELSE RefusalEn

FixedDisclaimer == IF IsHindi(language) THEN DisclaimerHi ELSE DisclaimerEn

\* the candidate contains a disallowed self-identification phrase
CandidateLeaksIdentity ==
  \E pat \in identity_patterns : In(pat, lower(OrEmpty(candidate)))

\* the candidate contains a term of the relevance keyword set
CandidateIsRelevant ==
  \E k \in AnswerLegalKeywords : In(k, lower(OrEmpty(candidate)))

\* the narrower cyber-safety lexicon of the specification (phishing, OTP,
\* malware, VPN, 2FA); src/policy.py has no such lexicon
CyberSafetyTerms == Terms({"phishing", "otp", "malware", "vpn", "2fa"})

IsCyberSafetyQuestion == \E k \in CyberSafetyTerms : In(k, lower(question))

\* C1: for every non-empty question, every language and every candidate
\* (None, empty and whitespace-only included) apply_policy returns a
\* non-empty string.
C1_Totality ==
  (Called /\ question # <<>>) => (result # <<>> /\ result # NoResult /\ result # None)

C1_Witness ==
  /\ Called
  /\ question = <<"What is", "weather">>
  /\ candidate = <<" ">>
  /\ language = <<"e", "n">>
  /\ result = DisclaimerEn

C3_LeakScrubbing ==
  (Called /\ is_legal_question(question) /\ CandidateLeaksIdentity)
    => result = FixedIdentity

\* C4: no returned text contains a disallowed AI-identity phrase.
C4_NoIdentityLeak ==
  Called => ~(\E pat \in identity_patterns : In(pat, lower(result)))

C6_CyberCarveOut ==
  (/\ Called
   /\ ~is_identity_question(question)
   /\ ~IsDefinitionRequest(question)
   /\ ~is_legal_question(question)
   /\ IsCyberSafetyQuestion)
    => (/\ In(<<"2FA/MFA">>, result)
        /\ In(<<"cybercrime.gov.in">>, result)
        /\ result # FixedRefusal)

\* the number of disclaimer blocks in a text
DisclaimerBlocks(txt) ==
  Cardinality({i \in 1..Len(txt) :
                 txt[i] \in {"**Source and Disclaimer:**", "hi:**srot aur asvikaran:**"}})

\* C7: the attribution step is idempotent: a text to which the disclaimer
\* of either language was appended passes the attribution check, so a text
\* that went through the step any number of times passes the check and has
\* at most one disclaimer block.
C7_AttributionIdempotent ==
  /\ _has_source_attribution(_add_source_attribution(text, language))
  /\ pc = "attributed" => (_has_source_attribution(text) /\ DisclaimerBlocks(text) <= 1)

C7_Witness ==
  /\ pc = "attributed"
  /\ steps = 2
  /\ language = <<"e", "n">>
  /\ text = <<"sunny">> \o DisclaimerEn

\* C8: for a legal, non-identity question and a candidate without identity
\* leak, with a relevance keyword and with an attribution signal, the result
\* is the trimmed candidate with nothing appended.
C8_AttributedAnswerUnchanged ==
  (/\ Called
   /\ ~is_identity_question(question)
   /\ is_legal_question(question)
   /\ candidate # None
   /\ ~CandidateLeaksIdentity
   /\ CandidateIsRelevant
   /\ _has_source_attribution(candidate))
    => result = strip(candidate)

C8_Witness ==
  /\ Called
  /\ question = <<"law">>
  /\ candidate = <<" ", "BNS">>
  /\ result = <<"BNS">>

\* C9: every returned text other than the fixed identity and refusal
\* sentences passes the attribution check: the trimmed candidate had an
\* attribution signal, or the disclaimer block was appended to it.
C9_AcceptedAnswerAttributed ==
  (Called /\ result \notin {IdentityEn, IdentityHi, RefusalEn, RefusalHi})
    => /\ _has_source_attribution(result)
       /\ \/ _has_source_attribution(strip(OrEmpty(candidate)))
          \/ /\ Len(result) >= Len(FixedDisclaimer)
             /\ SubSeq(result, Len(result) - Len(FixedDisclaimer) + 1, Len(result))
                  = FixedDisclaimer

C9_Witness ==
  /\ Called
  /\ question = <<"law">>
  /\ candidate = <<"Court">>
  /\ language = <<"e", "n">>
  /\ result = <<"Court">> \o DisclaimerEn

En == <<"e", "n">>

GoogleTranslate(txt, target) == <<"[translated to ">> \o target \o <<"] ">> \o txt

\* translate_text with a failure that loses the text
translate_text_EmptyOnFailure(txt, target_language, available, ok) ==
  IF ~available THEN txt
  ELSE IF target_language = En THEN txt
  ELSE IF ok THEN GoogleTranslate(txt, target_language)
  ELSE <<>>

\* LegalAdviceGenerator.translate_text; ok: the external call returns
translate_text(txt, target_language, available, ok) ==
  IF ~available THEN txt
  ELSE IF target_language = En THEN txt
  ELSE IF ok THEN GoogleTranslate(txt, target_language)
  ELSE txt

base_fallback_response ==
  <<"I apologize, but I'm currently unable to provide detailed ", "legal",
    " advice. Please consult a qualified ", "law", "yer for your specific situation.">>

\* LegalAdviceGenerator.get_fallback_response
get_fallback_response(lang, available, ok) ==
  IF lang = En
    THEN base_fallback_response
    ELSE translate_text(base_fallback_response, lang, available, ok)

(***************************************************************************)
(* src/models/legal_chat_model.py: the offline template responder.  The    *)
(* keyword lists keep their order and their repetitions.  They hold the    *)
(* English terms and, for the arrest list, the Devanagari terms; the terms *)
(* in the other scripts are matched the same way and occur in no text of   *)
(* the model.  A template is its title and the places of its body that     *)
(* the policy engine looks at; [...] stands for the text left out.         *)
(***************************************************************************)
TENANT_KEYWORDS ==
  << <<"tenant">>, <<"rent">>, <<"eviction">>, <<"landlord">>, <<"lease">>,
     <<"rent", "al">> >>

FIR_KEYWORDS ==
  << <<"fir">>, <<"file", " ", "fir">>, <<"filing", " ", "fir">>,
     <<"police", " ", "complaint">>, <<"register", " ", "complaint">>,
     <<"police", " ", "report">> >>

ARREST_RIGHTS_KEYWORDS ==
  << <<"arrest">>, <<"arrest", "ed">>, <<"rights", " ", "if", " ", "arrest", "ed">>,
     <<"what are my rights">>, <<"arrest", " ", "rights">>,
     <<"police", " ", "arrest">>,
     <<"hi:giraftar">>, <<"hi:giraftar", "hi:i">>, <<"hi:adhikar">>,
     <<"hi:giraftar", "hi:i", " ", "hi:ke", " ", "hi:adhikar">>,
     <<"mr:atak">>, <<"hi:adhikar">>, <<"mr:atak", " ", "hi:adhikar">> >>

CYBERCRIME_KEYWORDS ==
  << <<"cybercrime">>, <<"cyber crime">>, <<"cyber law">>, <<"cyber security">>,
     <<"cyber attack">>, <<"cyber offence">>, <<"cyber fraud">>,
     <<"online fraud">>, <<"digital fraud">>, <<"internet fraud">>,
     <<"computer crime">>, <<"victim of cybercrime">>, <<"cybercrime victim">>,
     <<"cybercrime case">>, <<"cybercrime complaint">>,
     <<"hacking">>, <<"phishing">>, <<"upi fraud">>, <<"bank fraud">>,
     <<"online scam">>, <<"digital scam">>, <<"identity theft">>,
     <<"data breach">>, <<"malware">>, <<"ransomware">>, <<"cyber stalking">>,
     <<"cyber harassment">>, <<"online harassment">>, <<"sextortion">>,
     <<"revenge porn">>, <<"cyber bullying">>, <<"social media crime">>,
     <<"email fraud">>, <<"credit card fraud">>, <<"online transaction fraud">>,
     <<"e-commerce fraud">>, <<"it act">>, <<"information technology act">>,
     <<"it act 2000">>, <<"cyber law india">> >>

FAMILY_KEYWORDS ==
  << <<"divorce">>, <<"marriage">>, <<"custody">>, <<"alimony">>,
     <<"maintenance">>, <<"family">>, <<"spouse">>, <<"child">> >>

CONTRACT_KEYWORDS ==
  << <<"contract">>, <<"agreement">>, <<"breach">>, <<"damages">>,
     <<"employment">>, <<"job">>, <<"work">>, <<"salary">> >>

CONSUMER_KEYWORDS ==
  << <<"consumer">>, <<"refund">>, <<"defective">>, <<"warranty">>,
     <<"product">>, <<"service">>, <<"purchase">> >>

TenantTemplate ==
  <<"**Tenant ", "Rights",
    " in India - Comprehensive Guide** [...] Approach the Rent Authority ",
    "under", " the Model Tenancy Act [...]">>

CybercrimeTemplate ==
  <<"**Cybercrime ", "Law", " & Remedies in India - Comprehensive Guide** [...] ",
    "BNS", " [...]">>

ArrestTemplate ==
  <<"**Your ", "Rights", " if Arrested (India) - Comprehensive Guide** [...] ",
    "Article", " 22 [...]">>

FirTemplate ==
  <<"**Filing ", "FIR", " & Criminal Procedure (", "BNS", "S", ", 2023)** [...]">>

FamilyTemplate ==
  <<"**Family ", "Law", ": Divorce, Custody & Maintenance** [...] ", "BNS", "S",
    " [...]">>

ContractTemplate == <<"**", "Contract", " & Employment Remedies** [...]">>

ConsumerTemplate ==
  <<"**Consumer Protection Act, 2019 Workflow** [...] consumer ", "rights",
    " [...] ", "under", " [...]">>

OFFLINE_RESPONSE_TEMPLATES ==
  << [keywords |-> TENANT_KEYWORDS, template |-> TenantTemplate],
     [keywords |-> CYBERCRIME_KEYWORDS, template |-> CybercrimeTemplate],
     [keywords |-> ARREST_RIGHTS_KEYWORDS, template |-> ArrestTemplate],
     [keywords |-> FIR_KEYWORDS, template |-> FirTemplate],
     [keywords |-> FAMILY_KEYWORDS, template |-> FamilyTemplate],
     [keywords |-> CONTRACT_KEYWORDS, template |-> ContractTemplate],
     [keywords |-> CONSUMER_KEYWORDS, template |-> ConsumerTemplate] >>

DEFAULT_OFFLINE_RESPONSE ==
  <<"**General ", "Legal", " Guidance (India)** [...] ", "Article",
    " 14-18: Equality before ", "law", " [...]">>

\* sum(1 for word in keywords if word in question_lower)
RECURSIVE MatchCount(_, _)
MatchCount(keywords, question_lower) ==
  IF keywords = <<>> THEN 0
  ELSE (IF In(Head(keywords), question_lower) THEN 1 ELSE 0)
         + MatchCount(Tail(keywords), question_lower)

\* the (matches, template) pairs with matches > 0, in declaration order
RECURSIVE ScoredTemplates(_, _)
ScoredTemplates(templates, question_lower) ==
  IF templates = <<>> THEN <<>>
  ELSE LET matches == MatchCount(Head(templates).keywords, question_lower)
           rest == ScoredTemplates(Tail(templates), question_lower)
       IN  IF matches > 0
             THEN <<[matches |-> matches, template |-> Head(templates).template]>> \o rest
             ELSE rest

\* a sort that puts the last of the pairs with the highest count first
FirstAfterSort_LastWins(scored) ==
  LET i == CHOOSE i \in 1..Len(scored) :
             \A j \in 1..Len(scored) :
               \/ scored[j].matches < scored[i].matches
               \/ scored[j].matches = scored[i].matches /\ j <= i
  IN  scored[i]

\* scored_templates.sort(key=lambda x: x[0], reverse=True)[0]: the sort is
\* stable, the first of the pairs with the highest count comes first
FirstAfterSort(scored) ==
  LET i == CHOOSE i \in 1..Len(scored) :
             \A j \in 1..Len(scored) :
               \/ scored[j].matches < scored[i].matches
               \/ scored[j].matches = scored[i].matches /\ j >= i
  IN  scored[i]

\* the template chosen for a question, before translation
SelectTemplate(q) ==
  LET question_lower == lower(OrEmpty(q))
      scored_templates == ScoredTemplates(OFFLINE_RESPONSE_TEMPLATES, question_lower)
  IN  IF scored_templates # <<>>
        THEN FirstAfterSort(scored_templates).template
        ELSE DEFAULT_OFFLINE_RESPONSE

get_intelligent_legal_response(q, lang, available, ok) ==
  LET response == SelectTemplate(q)
  IN  IF lang # En
        THEN translate_text(response, lang, available, ok)
        ELSE response

(***************************************************************************)
(* The offline responder on its own: one call of                           *)
(* get_intelligent_legal_response for a question, a language and a         *)
(* translation service that is installed or not and answers or fails.      *)
(***************************************************************************)
MaxRLen == 3

ResponderPieces ==
  {" ", "FIR", "arrest", "ed", "phishing", "rent", "hi:adhikar"}

ResponderQuestions == BoundedSeq(ResponderPieces, MaxRLen) \cup {None}

InitResponder ==
  /\ question \in ResponderQuestions
  /\ language \in Languages
  /\ env \in [available : BOOLEAN, ok : BOOLEAN]
  /\ candidate = None
  /\ result = NoResult
  /\ text = <<>>
  /\ steps = 0
  /\ pc = "start"
  /\ db = NoDb

Respond ==
  /\ pc = "start"
  /\ result' = get_intelligent_legal_response(question, language, env.available, env.ok)
  /\ pc' = "done"
  /\ UNCHANGED <<question, candidate, language, text, steps, env, db>>

NextResponder == Respond

SpecResponder == InitResponder /\ [][NextResponder]_vars

\* the number of entries of a keyword list that occur in a text
Occurrences(keywords, txt) ==
  Cardinality({i \in 1..Len(keywords) : In(keywords[i], txt)})

CategoryCount(i) ==
  Occurrences(OFFLINE_RESPONSE_TEMPLATES[i].keywords, lower(OrEmpty(question)))

Categories == 1..Len(OFFLINE_RESPONSE_TEMPLATES)

\* the category the selection rule names: a positive count that no category
\* exceeds and no earlier category equals
IsWinner(i) ==
  /\ CategoryCount(i) > 0
  /\ \A j \in Categories :
       \/ CategoryCount(j) < CategoryCount(i)
       \/ CategoryCount(j) = CategoryCount(i) /\ j >= i

IsRendering(r, template) ==
  r = template \/ r = GoogleTranslate(template, language)

\* C14: the responder answers with the template of the category with the
\* highest positive match count, the one declared first among equal counts,
\* and with the default general-guidance template when every count is zero.
C14_HighestCountFirstDeclared ==
  pc = "done" =>
    /\ \A i \in Categories :
         IsWinner(i) => IsRendering(result, OFFLINE_RESPONSE_TEMPLATES[i].template)
    /\ (\A i \in Categories : CategoryCount(i) = 0)
         => IsRendering(result, DEFAULT_OFFLINE_RESPONSE)

\* a tie between two categories, answered with the template declared first
C14_Witness ==
  /\ pc = "done"
  /\ \E i, j \in Categories :
       /\ i < j
       /\ IsWinner(i)
       /\ CategoryCount(j) = CategoryCount(i)
       /\ IsRendering(result, OFFLINE_RESPONSE_TEMPLATES[i].template)

\* C15: the responder always returns a non-empty text: the selected template
\* itself for language 'en', its translation for another language, and the
\* English template when the translation is not available or fails.
C15_TemplateOrTranslation ==
  pc = "done" =>
    /\ result # <<>>
    /\ result # NoResult
    /\ language = En => result = SelectTemplate(question)
    /\ (language # En /\ env.available /\ env.ok)
         => result = GoogleTranslate(SelectTemplate(question), language)
    /\ (language # En /\ ~(env.available /\ env.ok))
         => result = SelectTemplate(question)

\* a failed translation answered with the English template
C15_Witness ==
  /\ pc = "done"
  /\ language # En
  /\ env.available
  /\ ~env.ok
  /\ result = SelectTemplate(question)
  /\ result # DEFAULT_OFFLINE_RESPONSE

(***************************************************************************)
(* src/models/legal_chat_model.py: the generative provider adapter and     *)
(* get_legal_advice.  The provider is what the environment does with the   *)
(* one request of a call: there is no API key, the request raises, the     *)
(* response has another status than 200, or it has status 200 and a        *)
(* content that is missing, null or a text.                                *)
(***************************************************************************)
Raised == <<"<raised>">>
Missing == <<"<missing>">>

KeyNotSetMessage ==
  <<"OpenAI", " API key not set", ". Set ", "OPENAI", "_API_KEY environment variable.">>

\* an adapter that hands the error text of a failed request to its caller
get_openai_answer_RawError(q, lang, provider, available, ok) ==
  IF provider.kind = "nokey" THEN KeyNotSetMessage
  ELSE IF provider.kind = "raises" THEN <<"Error", " ", "connection refused">>
  ELSE IF provider.kind = "non200" THEN get_fallback_response(lang, available, ok)
  ELSE IF provider.content \in {Missing, None}
         THEN get_fallback_response(lang, available, ok)
  ELSE IF strip(provider.content) # <<>> THEN strip(provider.content)
  ELSE get_fallback_response(lang, available, ok)

get_openai_answer(q, lang, provider, available, ok) ==
  IF provider.kind = "nokey" THEN KeyNotSetMessage
  ELSE IF provider.kind = "raises" THEN get_fallback_response(lang, available, ok)
  ELSE IF provider.kind = "non200" THEN get_fallback_response(lang, available, ok)
  ELSE IF provider.content \in {Missing, None}
         THEN get_fallback_response(lang, available, ok)
  ELSE IF strip(provider.content) # <<>> THEN strip(provider.content)
  ELSE get_fallback_response(lang, available, ok)

base_message ==
  <<"Could you please provide a question that addresses a specific ", "legal",
    " issue.">>

\* tr: which of the translation calls of one get_legal_advice return: the one
\* inside get_openai_answer, the one for fallback_signature, the one for the
\* text that is returned
get_legal_advice(q, lang, provider, available, tr) ==
  IF q = None \/ strip(OrEmpty(q)) = <<>>
    THEN translate_text(base_message, lang, available, tr.final)
    ELSE
      LET openai_answer == get_openai_answer(strip(q), lang, provider, available, tr.openai)
          fallback_signature ==
            lower(strip(get_fallback_response(lang, available, tr.signature)))
          normalized_answer == strip(OrEmpty(openai_answer))
          lower_answer == lower(normalized_answer)
      IN  IF /\ normalized_answer # <<>>
             /\ ~startswith(lower_answer, <<"openai", " api key not set">>)
             /\ ~startswith(lower_answer, <<"error">>)
             /\ lower_answer # fallback_signature
            THEN IF lang # En /\ normalized_answer = get_fallback_response(En, available, TRUE)
                   THEN translate_text(normalized_answer, lang, available, tr.final)
                   ELSE normalized_answer
            ELSE get_intelligent_legal_response(q, lang, available, tr.final)

MaxAdviceQLen == 1
MaxContentLen == 2

AdviceQuestions == BoundedSeq({" ", "FIR"}, MaxAdviceQLen) \cup {None}

ProviderContents ==
  BoundedSeq({" ", "Court", "Error"}, MaxContentLen)
    \cup {Missing, None, base_fallback_response, lower(base_fallback_response),
          KeyNotSetMessage}

Providers ==
  {[kind |-> k, content |-> Missing] : k \in {"nokey", "raises", "non200"}}
    \cup {[kind |-> "ok200", content |-> c] : c \in ProviderContents}

InitAdvice ==
  /\ question \in AdviceQuestions
  /\ language \in Languages
  /\ env \in [provider : Providers, available : BOOLEAN,
              tr : [openai : BOOLEAN, signature : BOOLEAN, final : BOOLEAN]]
  /\ candidate = None
  /\ result = NoResult
  /\ text = <<>>
  /\ steps = 0
  /\ pc = "start"
  /\ db = NoDb

\* a call of get_openai_answer; candidate holds what it returns
GetOpenAIAnswer ==
  /\ pc = "start"
  /\ candidate' = get_openai_answer(OrEmpty(question), language, env.provider,
                                    env.available, env.tr.openai)
  /\ pc' = "answered"
  /\ UNCHANGED <<question, language, result, text, steps, env, db>>

\* a call of get_legal_advice; result holds what it returns
GetLegalAdvice ==
  /\ pc = "start"
  /\ result' = get_legal_advice(question, language, env.provider, env.available, env.tr)
  /\ pc' = "done"
  /\ UNCHANGED <<question, candidate, language, text, steps, env, db>>

NextAdvice == GetOpenAIAnswer \/ GetLegalAdvice

SpecAdvice == InitAdvice /\ [][NextAdvice]_vars

\* the request failed or brought no content
ProviderGaveNothing ==
  \/ env.provider.kind \in {"raises", "non200"}
  \/ /\ env.provider.kind = "ok200"
     /\ \/ env.provider.content \in {Missing, None}
        \/ strip(env.provider.content) = <<>>

\* the fallback sentence, in any of the forms the adapter can give it
FallbackSentences ==
  {base_fallback_response} \cup {GoogleTranslate(base_fallback_response, l) : l \in Languages}

\* C12: get_openai_answer always returns; after a transport exception, a
\* status other than 200 or a 200 response with empty or missing content it
\* returns the fallback sentence of the language, translated when the
\* translation succeeds and in English otherwise.
C12_FallbackOnProviderFailure ==
  pc = "answered" =>
    /\ candidate # Raised
    /\ ProviderGaveNothing =>
         /\ candidate \in FallbackSentences
         /\ language = En => candidate = base_fallback_response
         /\ (language # En /\ env.available /\ env.tr.openai)
              => candidate = GoogleTranslate(base_fallback_response, language)
         /\ (language # En /\ ~(env.available /\ env.tr.openai))
              => candidate = base_fallback_response

\* a request that raised, answered with the translated fallback sentence
C12_Witness ==
  /\ pc = "answered"
  /\ env.provider.kind = "raises"
  /\ language # En
  /\ candidate = GoogleTranslate(base_fallback_response, language)

\* what the claim calls an answer to trust
TrustedAnswer(answer) ==
  /\ strip(answer) # <<>>
  /\ ~startswith(lower(strip(answer)), <<"openai", " api key not set">>)
  /\ ~startswith(lower(strip(answer)), <<"error">>)
  /\ strip(answer) \notin FallbackSentences
  /\ lower(strip(answer)) \notin {lower(f) : f \in FallbackSentences}

\* the provider's answer in a call of get_legal_advice
ProviderAnswer ==
  get_openai_answer(strip(OrEmpty(question)), language, env.provider,
                    env.available, env.tr.openai)

\* C13: for a non-empty question get_legal_advice returns the provider's
\* trimmed answer when that answer is non-empty, starts with no failure
\* prefix and is not the fallback sentence, and the offline responder's
\* answer in every other case; it never returns the fallback sentence.
C13_ProviderAnswerOrOfflineTemplate ==
  (pc = "done" /\ question # None /\ strip(OrEmpty(question)) # <<>>) =>
    /\ result \notin FallbackSentences
    /\ IF TrustedAnswer(ProviderAnswer)
         THEN result = strip(ProviderAnswer)
         ELSE IsRendering(result, SelectTemplate(question))

(***************************************************************************)
(* src/utils/lang.py: translate.  A language code is a text or None; a     *)
(* missing or empty code reads as 'en'.                                    *)
(***************************************************************************)
Falsy(x) == x = None \/ x = <<>>

OrEn(code) == IF Falsy(code) THEN En ELSE code

\* a translate that lets the failure of the translation call through
translate_RaisesOnFailure(txt, source_lang, target_lang, ok) ==
  IF Falsy(txt) THEN <<>>
  ELSE IF OrEn(source_lang) = OrEn(target_lang) THEN txt
  ELSE IF ok THEN GoogleTranslate(txt, OrEn(target_lang))
  ELSE Raised

translate(txt, source_lang, target_lang, ok) ==
  IF Falsy(txt) THEN <<>>
  ELSE IF OrEn(source_lang) = OrEn(target_lang) THEN txt
  ELSE IF ok THEN GoogleTranslate(txt, OrEn(target_lang))
  ELSE txt

\* translate_pair; guess: what detect_language answers for the text, a code
\* of the language detector or of the script of the first character
translate_pair(question_text, user_lang, guess, ok) ==
  LET detected == IF Falsy(user_lang) THEN guess ELSE user_lang
  IN  <<detected, translate(question_text, detected, En, ok)>>

MaxTLen == 2

LanguageCodes == Languages \cup {None, <<>>}

InitTranslate ==
  /\ question \in BoundedSeq({" ", "Court"}, MaxTLen) \cup {None}
  /\ env \in [source : LanguageCodes, target : LanguageCodes, ok : BOOLEAN]
  /\ language = En
  /\ candidate = None
  /\ result = NoResult
  /\ text = <<>>
  /\ steps = 0
  /\ pc = "start"
  /\ db = NoDb

Translate ==
  /\ pc = "start"
  /\ result' = translate(question, env.source, env.target, env.ok)
  /\ pc' = "done"
  /\ UNCHANGED <<question, candidate, language, text, steps, env, db>>

NextTranslate == Translate

SpecTranslate == InitTranslate /\ [][NextTranslate]_vars

SameCode(a, b) ==
  \/ a = b
  \/ a \in {None, <<>>, En} /\ b \in {None, <<>>, En}

\* C17: translate always returns, and it returns the text it was given when
\* the source and target codes are the same (a missing code being 'en') and
\* when the translation call fails.
C17_TranslateIsNoOpOnFailure ==
  pc = "done" =>
    /\ result # Raised
    /\ (SameCode(env.source, env.target) \/ ~env.ok) => result = OrEmpty(question)

\* a failed translation between different languages, answered with the input
C17_Witness ==
  /\ pc = "done"
  /\ ~SameCode(env.source, env.target)
  /\ ~env.ok
  /\ question # None
  /\ Len(question) > 0
  /\ result = question

(***************************************************************************)
(* src/policy.py: the two classifiers on their own, called on a text or    *)
(* on None.                                                                *)
(***************************************************************************)
MaxCLen == 5

ClassifyPieces == {" ", "Who are you", "Are you a bot", "law", "in plain words"}

InitClassify ==
  /\ question \in BoundedSeq(ClassifyPieces, MaxCLen) \cup {None}
  /\ language = En
  /\ candidate = None
  /\ result = NoResult
  /\ text = <<>>
  /\ steps = 0
  /\ pc = "start"
  /\ env = NoEnv
  /\ db = NoDb

Classify ==
  /\ pc = "start"
  /\ result' = [identity |-> is_identity_question(question),
                legal |-> is_legal_question(question)]
  /\ pc' = "done"
  /\ UNCHANGED <<question, candidate, language, text, steps, env, db>>

NextClassify == Classify

SpecClassify == InitClassify /\ [][NextClassify]_vars

SixIdentityPhrases ==
  {"who are you", "what are you", "who is this", "identify yourself",
   "what is your name", "are you a bot"}

\* the text holds one of the six phrases, in any case
HoldsIdentityPhrase(q) ==
  /\ q # None
  /\ \E i \in 1..Len(q) : LowerPiece(q[i]) \in SixIdentityPhrases

\* C18: is_identity_question is true exactly for the texts that hold one of
\* the six identity phrases in any case; for None and for the empty text
\* both classifiers answer false.
C18_IdentityExactlySixPhrases ==
  pc = "done" =>
    /\ result.identity <=> HoldsIdentityPhrase(question)
    /\ (question = None \/ question = <<>>) => (~result.identity /\ ~result.legal)

\* an identity phrase typed with a capital, recognised
C18_Witness ==
  /\ pc = "done"
  /\ question # None
  /\ \E i \in 1..Len(question) : question[i] = "Are you a bot"
  /\ result.identity

\* the number of whitespace-separated tokens of a text
TokenCount(q) == SplitLen(lower(strip(OrEmpty(q))))

\* C19: an identity question of at most 5 tokens is not a legal question,
\* whatever legal keyword it holds.
C19_ShortIdentityIsNotLegal ==
  (pc = "done" /\ TokenCount(question) <= 5 /\ HoldsIdentityPhrase(question))
    => ~result.legal

\* a short identity question that holds the keyword 'law', answered false
C19_Witness ==
  /\ pc = "done"
  /\ question # None
  /\ TokenCount(question) <= 5
  /\ HoldsIdentityPhrase(question)
  /\ \E i \in 1..Len(question) : question[i] = "law"
  /\ ~result.legal

\* the contrast: a long identity question with the keyword is a legal one
C19_LongWitness ==
  /\ pc = "done"
  /\ TokenCount(question) > 5
  /\ HoldsIdentityPhrase(question)
  /\ result.legal

(***************************************************************************)
(* src/app.py: the /chat and /speech_chat handlers and the chats table of  *)
(* src/utils/db.py.  A handler is an operator from the request, the user   *)
(* of the bearer token, what the environment does during the turn and the  *)
(* chats table to the response, the new chats table and the values the     *)
(* turn computed.  The environment of a turn: the provider, whether        *)
(* apply_policy raises, whether insert_chat raises, whether the            *)
(* translation calls return, and what detect_language answers.  The court  *)
(* case search only feeds the prompt of the provider.                      *)
(***************************************************************************)
PolicyFailureSentence ==
  <<"I can only provide ", "legal", " knowledge. Please ask a ", "legal", " question.">>

AllTranslationsOk == [openai |-> TRUE, signature |-> TRUE, final |-> TRUE]

ChatRecord(q, answer, lang, timestamp) ==
  [question |-> q, answer |-> answer, language |-> lang, timestamp |-> timestamp]

\* insert_chat: one INSERT, or an exception that leaves the table as it was
insert_chat(chats, record, raises) ==
  IF raises THEN chats ELSE Append(chats, record)

NoTurn == [endpoint |-> "none"]

\* a turn that answers and stores the text of get_legal_advice as it came
AnswerTurn_SkipsPolicy(endpoint, asked, asked_en, detected_lang, user, turn, chats, now) ==
  LET advice == get_legal_advice(asked_en, En, turn.provider, TRUE, AllTranslationsOk)
      answer == IF Falsy(advice) THEN base_fallback_response ELSE advice
      sanitized == translate(answer, En, OrEn(detected_lang), turn.tr_ok)
  IN  [response |-> [status |-> 200, answer |-> sanitized, question |-> asked,
                     language |-> detected_lang, timestamp |-> now,
                     source |-> IF endpoint = "chat" /\ In(<<"openai">>, lower(answer))
                                  THEN "openai_api" ELSE "local_model"],
       chats |-> insert_chat(chats, ChatRecord(asked, sanitized, detected_lang, now),
                             turn.insert_raises),
       log |-> [endpoint |-> endpoint, user |-> user, asked |-> asked,
                policy_raised |-> turn.policy_raises, sanitized_en |-> answer,
                asked_en |-> asked_en, answer |-> answer, tr_ok |-> turn.tr_ok]]

\* the part of both handlers from get_legal_advice to the response
AnswerTurn(endpoint, asked, asked_en, detected_lang, user, turn, chats, now) ==
  LET advice == get_legal_advice(asked_en, En, turn.provider, TRUE, AllTranslationsOk)
      answer == IF Falsy(advice) THEN base_fallback_response ELSE advice
      sanitized_en == IF turn.policy_raises
                        THEN PolicyFailureSentence
                        ELSE apply_policy(answer, asked_en, En)
      sanitized == translate(sanitized_en, En, OrEn(detected_lang), turn.tr_ok)
  IN  [response |-> [status |-> 200, answer |-> sanitized, question |-> asked,
                     language |-> detected_lang, timestamp |-> now,
                     source |-> IF endpoint = "chat" /\ In(<<"openai">>, lower(answer))
                                  THEN "openai_api" ELSE "local_model"],
       chats |-> insert_chat(chats, ChatRecord(asked, sanitized, detected_lang, now),
                             turn.insert_raises),
       log |-> [endpoint |-> endpoint, user |-> user, asked |-> asked,
                policy_raised |-> turn.policy_raises, sanitized_en |-> sanitized_en,
                asked_en |-> asked_en, answer |-> answer, tr_ok |-> turn.tr_ok]]

Rejected(endpoint, status, error, user, asked, chats) ==
  [response |-> [status |-> status, error |-> error],
   chats |-> chats,
   log |-> [endpoint |-> endpoint, user |-> user, asked |-> asked,
            policy_raised |-> FALSE, sanitized_en |-> None]]

\* a /chat handler that stores the question before it looks at the request
chat_StoresBeforeChecks(data, user, turn, chats, now) ==
  LET q == strip(OrEmpty(data.question))
      lang == IF Falsy(data.language) THEN turn.guess ELSE data.language
      pair == translate_pair(q, lang, turn.guess, turn.tr_ok)
      stored == insert_chat(chats, ChatRecord(q, <<>>, pair[1], now), turn.insert_raises)
  IN  IF q = <<>> THEN Rejected("chat", 400, "Question is required", user, q, stored)
      ELSE IF user = None THEN Rejected("chat", 401, "Unauthorized", user, q, stored)
      ELSE AnswerTurn("chat", q, pair[2], pair[1], user, turn, stored, now)

chat(data, user, turn, chats, now) ==
  LET q == strip(OrEmpty(data.question))
      lang == IF Falsy(data.language) THEN turn.guess ELSE data.language
      pair == translate_pair(q, lang, turn.guess, turn.tr_ok)
  IN  IF q = <<>> THEN Rejected("chat", 400, "Question is required", user, q, chats)
      ELSE IF user = None THEN Rejected("chat", 401, "Unauthorized", user, q, chats)
      ELSE AnswerTurn("chat", q, pair[2], pair[1], user, turn, chats, now)

\* req.audio: Missing, the empty bytes or some bytes; req.transcript:
\* what transcribe_audio_bytes gives for the bytes, a text or None.  The 501
\* is the second argument of jsonify, the response goes out with status 200.
speech_chat(req, user, turn, chats, now) ==
  IF user = None THEN Rejected("speech_chat", 401, "Unauthorized", user, <<>>, chats)
  ELSE IF req.audio = Missing
    THEN Rejected("speech_chat", 400, "No audio uploaded", user, <<>>, chats)
  ELSE IF req.audio = <<>>
    THEN Rejected("speech_chat", 400, "Empty audio file", user, <<>>, chats)
  ELSE IF Falsy(req.transcript)
    THEN Rejected("speech_chat", 200, "Speech-to-text not available on this deployment",
                  user, <<>>, chats)
  ELSE
    LET detected_lang == IF Falsy(req.language) THEN turn.guess ELSE req.language
        pair == translate_pair(req.transcript, detected_lang, turn.guess, turn.tr_ok)
    IN  AnswerTurn("speech_chat", req.transcript, pair[2], detected_lang, user, turn,
                   chats, now)

MaxTurns == 2

Users == {None, <<"u1">>}

ChatData ==
  [question : {None, <<" ">>, <<" ", "law">>, <<"weather">>},
   language : {None, <<"h", "i">>}]

SpeechRequests ==
  [audio : {Missing, <<>>, <<"bytes">>}, transcript : {None, <<"law">>},
   language : {None, <<"h", "i">>}]

Turns ==
  [provider : {[kind |-> "raises", content |-> Missing],
               [kind |-> "ok200", content |-> <<"Court">>]},
   policy_raises : BOOLEAN, insert_raises : BOOLEAN, tr_ok : BOOLEAN,
   guess : {En, <<"h", "i">>}]

InitChat ==
  /\ db = [chats |-> <<>>]
  /\ env = NoTurn
  /\ result = NoResult
  /\ question = <<>>
  /\ candidate = None
  /\ language = En
  /\ text = <<>>
  /\ steps = 0
  /\ pc = "idle"

Handled(out) ==
  /\ db' = [db EXCEPT !.chats = out.chats]
  /\ env' = out.log
  /\ result' = out.response
  /\ steps' = steps + 1
  /\ UNCHANGED <<question, candidate, language, text, pc>>

ChatTurn ==
  /\ steps < MaxTurns
  /\ \E data \in ChatData, user \in Users, turn \in Turns :
       Handled(chat(data, user, turn, db.chats, steps))

SpeechChatTurn ==
  /\ steps < MaxTurns
  /\ \E req \in SpeechRequests, user \in Users, turn \in Turns :
       Handled(speech_chat(req, user, turn, db.chats, steps))

NextChat == ChatTurn \/ SpeechChatTurn

SpecChat == InitChat /\ [][NextChat]_vars

\* C11: when apply_policy raises during a /chat or /speech_chat turn, the
\* turn still answers with status 200 and the English answer it goes on
\* with is the refusal sentence of the scope gate.
C11_PolicyFailureGivesScopeRefusal ==
  (env # NoTurn /\ env.policy_raised) =>
    /\ result.status = 200
    /\ env.sanitized_en = RefusalEn

\* C16: a step of the system leaves the chat records as they are or adds
\* one record at the end, and it adds one only in a turn of an authenticated
\* user with a non-empty question that is answered with status 200.
C16_ChatRecordsOnlyGrow ==
  [][ \/ db'.chats = db.chats
      \/ /\ Len(db'.chats) = Len(db.chats) + 1
         /\ SubSeq(db'.chats, 1, Len(db.chats)) = db.chats
         /\ env'.user # None
         /\ env'.asked # <<>>
         /\ result'.status = 200 ]_vars

\* a rejected turn after a recorded one: the record is still there
C16_Witness ==
  /\ env # NoTurn
  /\ result.status \in {400, 401}
  /\ Len(db.chats) = 1
  /\ db.chats[1].question = <<"law">>

(***************************************************************************)
(* src/app.py: /subscriptions/purchase, /book-lawyer and /lawyers/book,    *)
(* with the subscription_purchases and lawyer_bookings tables of           *)
(* src/utils/db.py.  A JSON value of a request is null, a number or a      *)
(* string; a string is a sequence of pieces.                               *)
(***************************************************************************)
Null == [type |-> "null"]
Num(n) == [type |-> "int", v |-> n]
Str(pieces) == [type |-> "str", v |-> pieces]

DigitPieces == {"0", "1", "2", "3"}

DigitValue(p) == CASE p = "0" -> 0 [] p = "1" -> 1 [] p = "2" -> 2 [] p = "3" -> 3

\* Python's int() on a JSON value: the number, the number a string of digits
\* writes (spaces around it allowed), or an exception
int(value) ==
  IF value.type = "int" THEN [ok |-> TRUE, v |-> value.v]
  ELSE IF value.type = "null" THEN [ok |-> FALSE]
  ELSE IF Len(strip(value.v)) = 1 /\ strip(value.v)[1] \in DigitPieces
    THEN [ok |-> TRUE, v |-> DigitValue(strip(value.v)[1])]
  ELSE [ok |-> FALSE]

\* 'not value' of Python
Not(value) ==
  \/ value.type = "null"
  \/ value.type = "int" /\ value.v = 0
  \/ value.type = "str" /\ value.v = <<>>

TierIds == {<<"basic">>, <<"standard">>, <<"extended">>, <<"premium">>}

\* f"SUB_{int(time.time())}_{secrets.token_hex(4)}"
SubscriptionToken(seconds, hex) == <<"SUB_", seconds, "_", hex>>

\* create_subscription_purchase: the row gets the next id; subscription_id
\* is UNIQUE, a second row with the same token raises
create_subscription_purchase(rows, purchase, seconds, hex) ==
  LET token == SubscriptionToken(seconds, hex)
      row == [id |-> Len(rows) + 1, subscription_id |-> token,
              user_id |-> purchase.user_id, tier_id |-> purchase.tier_id,
              payment_reference |-> purchase.payment_reference,
              status |-> purchase.status]
  IN  IF \E i \in 1..Len(rows) : rows[i].subscription_id = token
        THEN [ok |-> FALSE, rows |-> rows]
        ELSE [ok |-> TRUE, rows |-> Append(rows, row), row |-> row]

\* get_subscription_purchase: SELECT ... WHERE id = ? and fetchone(); the
\* answer is <<row>>, or <<>> for the None of no row
get_subscription_purchase(rows, id) ==
  IF \E i \in 1..Len(rows) : rows[i].id = id
    THEN <<rows[CHOOSE i \in 1..Len(rows) : rows[i].id = id]>>
    ELSE <<>>

Failure(status, error) == [status |-> status, error |-> error]

purchase_subscription(user, data, tables, seconds, hex) ==
  LET tier_id == lower(strip(OrEmpty(data.tier_id)))
      payment_reference == strip(OrEmpty(data.payment_reference))
      created == create_subscription_purchase(
                   tables.subscription_purchases,
                   [user_id |-> user, tier_id |-> tier_id,
                    payment_reference |-> payment_reference, status |-> "active"],
                   seconds, hex)
  IN  IF user = None THEN [response |-> Failure(401, "Unauthorized"), tables |-> tables]
      ELSE IF tier_id = <<>>
        THEN [response |-> Failure(400, "tier_id is required"), tables |-> tables]
      ELSE IF payment_reference = <<>>
        THEN [response |-> Failure(400, "payment_reference is required"), tables |-> tables]
      ELSE IF tier_id \notin TierIds
        THEN [response |-> Failure(400, "Invalid subscription tier"), tables |-> tables]
      ELSE IF ~created.ok
        THEN [response |-> Failure(500, "Internal server error"), tables |-> tables]
      ELSE [response |-> [status |-> 201, subscription |-> created.row],
            tables |-> [tables EXCEPT !.subscription_purchases = created.rows]]

\* the booking made without the test of the owner of the subscription
_handle_lawyer_booking_AnyOwner(user, payload, tables, seconds) ==
  LET subscription_id_raw == payload.subscription_id
      parsed == int(subscription_id_raw)
      fetched == get_subscription_purchase(tables.subscription_purchases, parsed.v)
      subscription == fetched[1]
      lawyer == IF Not(payload.preferred_lawyer_id) THEN [ok |-> FALSE]
                ELSE int(payload.preferred_lawyer_id)
      preferred_lawyer_id == IF lawyer.ok THEN Num(lawyer.v) ELSE Null
      booking == [booking_id |-> <<"BOOK_", seconds>>, tier_id |-> subscription.tier_id,
                  user_id |-> user, preferred_lawyer_id |-> preferred_lawyer_id,
                  payment_reference |-> subscription.payment_reference,
                  status |-> IF preferred_lawyer_id = Null THEN "awaiting_match"
                             ELSE "pending_confirmation",
                  subscription_id |-> parsed.v]
  IN  IF Not(subscription_id_raw)
        THEN [response |-> Failure(400, "subscription_id is required"), tables |-> tables]
      ELSE IF ~parsed.ok
        THEN [response |-> Failure(400, "Invalid subscription_id format"), tables |-> tables]
      ELSE IF fetched = <<>>
        THEN [response |-> Failure(404, "Subscription not found"), tables |-> tables]
      ELSE IF subscription.status # "active"
        THEN [response |-> Failure(400, "Subscription is not active"), tables |-> tables]
      ELSE IF subscription.tier_id \notin TierIds
        THEN [response |-> Failure(400, "Invalid subscription tier"), tables |-> tables]
      ELSE [response |-> [status |-> 200, booking |-> booking, subscription_id |-> parsed.v],
            tables |-> [tables EXCEPT !.lawyer_bookings = Append(@, booking)]]

_handle_lawyer_booking(user, payload, tables, seconds) ==
  LET subscription_id_raw == payload.subscription_id
      parsed == int(subscription_id_raw)
      fetched == get_subscription_purchase(tables.subscription_purchases, parsed.v)
      subscription == fetched[1]
      lawyer == IF Not(payload.preferred_lawyer_id) THEN [ok |-> FALSE]
                ELSE int(payload.preferred_lawyer_id)
      preferred_lawyer_id == IF lawyer.ok THEN Num(lawyer.v) ELSE Null
      booking == [booking_id |-> <<"BOOK_", seconds>>, tier_id |-> subscription.tier_id,
                  user_id |-> user, preferred_lawyer_id |-> preferred_lawyer_id,
                  payment_reference |-> subscription.payment_reference,
                  status |-> IF preferred_lawyer_id = Null THEN "awaiting_match"
                             ELSE "pending_confirmation",
                  subscription_id |-> parsed.v]
  IN  IF Not(subscription_id_raw)
        THEN [response |-> Failure(400, "subscription_id is required"), tables |-> tables]
      ELSE IF ~parsed.ok
        THEN [response |-> Failure(400, "Invalid subscription_id format"), tables |-> tables]
      ELSE IF fetched = <<>>
        THEN [response |-> Failure(404, "Subscription not found"), tables |-> tables]
      ELSE IF subscription.user_id # user
        THEN [response |-> Failure(403, "Unauthorized: This subscription does not belong to you"),
              tables |-> tables]
      ELSE IF subscription.status # "active"
        THEN [response |-> Failure(400, "Subscription is not active"), tables |-> tables]
      ELSE IF subscription.tier_id \notin TierIds
        THEN [response |-> Failure(400, "Invalid subscription tier"), tables |-> tables]
      ELSE [response |-> [status |-> 200, booking |-> booking, subscription_id |-> parsed.v],
            tables |-> [tables EXCEPT !.lawyer_bookings = Append(@, booking)]]

\* book_lawyer and lawyers_book
book_lawyer(user, payload, tables, seconds) ==
  IF user = None
    THEN [response |-> Failure(401, "Unauthorized"), tables |-> tables]
    ELSE _handle_lawyer_booking(user, payload, tables, seconds)

MaxRequests == 3

Customers == {None, <<"u1">>, <<"u2">>}
Seconds == {"1700000000", "1700000001"}
HexTokens == {"a1b2c3d4"}

PurchaseData ==
  [tier_id : {None, <<"Basic">>, <<"gold">>}, payment_reference : {None, <<"UPI123">>}]

\* the values a client can send as subscription_id: nothing, numbers, digit
\* strings, and the subscription_id texts and ids of the rows purchased
SubscriptionIdValues(rows) ==
  {Null, Num(0), Num(1), Num(2), Str(<<"1">>), Str(<<" ", "2">>)}
    \cup {Str(rows[i].subscription_id) : i \in 1..Len(rows)}

InitBooking ==
  /\ db = [subscription_purchases |-> <<>>, lawyer_bookings |-> <<>>]
  /\ env = [endpoint |-> "none"]
  /\ result = NoResult
  /\ question = <<>>
  /\ candidate = None
  /\ language = En
  /\ text = <<>>
  /\ steps = 0
  /\ pc = "idle"

Served(endpoint, user, sent, out) ==
  /\ db' = out.tables
  /\ env' = [endpoint |-> endpoint, user |-> user, sent |-> sent]
  /\ result' = out.response
  /\ steps' = steps + 1
  /\ UNCHANGED <<question, candidate, language, text, pc>>

PurchaseSubscription ==
  /\ steps < MaxRequests
  /\ \E user \in Customers, data \in PurchaseData, seconds \in Seconds, hex \in HexTokens :
       Served("/subscriptions/purchase", user, Null,
              purchase_subscription(user, data, db, seconds, hex))

BookLawyer ==
  /\ steps < MaxRequests
  /\ \E user \in Customers, seconds \in Seconds,
        id \in SubscriptionIdValues(db.subscription_purchases),
        lawyer \in {Null, Num(3)} :
       Served("/book-lawyer", user, id,
              book_lawyer(user, [subscription_id |-> id, preferred_lawyer_id |-> lawyer],
                          db, seconds))

LawyersBook ==
  /\ steps < MaxRequests
  /\ \E user \in Customers, seconds \in Seconds,
        id \in SubscriptionIdValues(db.subscription_purchases),
        lawyer \in {Null, Num(3)} :
       Served("/lawyers/book", user, id,
              book_lawyer(user, [subscription_id |-> id, preferred_lawyer_id |-> lawyer],
                          db, seconds))

NextBooking == PurchaseSubscription \/ BookLawyer \/ LawyersBook

SpecBooking == InitBooking /\ [][NextBooking]_vars

\* the request was a booking that sent the subscription_id text of a purchase
\* of the same user
SentReturnedSubscriptionId ==
  /\ env.endpoint \in {"/book-lawyer", "/lawyers/book"}
  /\ env.user # None
  /\ \E i \in 1..Len(db.subscription_purchases) :
       /\ db.subscription_purchases[i].user_id = env.user
       /\ env.sent = Str(db.subscription_purchases[i].subscription_id)

\* C20: a booking request of the user who purchased, sent with the
\* subscription_id that the purchase returned, is answered 200 and its
\* booking is in the lawyer_bookings table.
C20_ReturnedSubscriptionIdAccepted ==
  SentReturnedSubscriptionId =>
    /\ result.status = 200
    /\ \E j \in 1..Len(db.lawyer_bookings) : db.lawyer_bookings[j].user_id = env.user

\* a booking recorded for a purchase, the client having sent the row id
C20_BookedByRowId ==
  /\ env.endpoint \in {"/book-lawyer", "/lawyers/book"}
  /\ result.status = 200
  /\ Len(db.lawyer_bookings) = 1

(***************************************************************************)
(* src/app.py: GET /lawyers/availability over the lawyer_profiles table.   *)
(* The Authorization header of a request is absent (None) or a text.       *)
(***************************************************************************)
ValidTokens == {"token-u1"}

\* decode_jwt: the payload of a token that verifies, None otherwise
decode_jwt(token) ==
  IF Len(token) = 1 /\ token[1] \in ValidTokens THEN <<"u1">> ELSE None

\* request.headers.get('Authorization', '') and the Bearer prefix
get_current_user(authorization) ==
  LET auth_header == OrEmpty(authorization)
  IN  IF ~startswith(auth_header, <<"Bearer ">>) THEN None
      ELSE decode_jwt(Tail(auth_header))

_public_lawyer_payload(profile) ==
  [id |-> profile.id, name |-> profile.full_name,
   status |-> IF profile.is_available THEN "Available" ELSE "Busy",
   is_available |-> profile.is_available]

\* db_raises: list_lawyer_profiles raises
lawyers_availability(authorization, profiles, db_raises, now) ==
  IF db_raises THEN Failure(500, "Internal server error")
  ELSE
    LET public_profiles == [i \in 1..Len(profiles) |-> _public_lawyer_payload(profiles[i])]
    IN  [status |-> 200, lawyers |-> public_profiles, timestamp |-> now,
         summary |-> [total |-> Len(public_profiles),
                      available |-> Cardinality({i \in 1..Len(public_profiles) :
                                                   public_profiles[i].is_available})]]

MaxProfiles == 3
MaxCalls == 2

AuthorizationHeaders ==
  {None, <<"Basic ", "token-u1">>, <<"Bearer ", "expired">>, <<"Bearer ", "token-u1">>}

LawyerTables ==
  UNION {{[i \in 1..n |-> [id |-> i, full_name |-> <<"Adv. ", "L">>, is_available |-> a[i]]] :
            a \in [1..n -> BOOLEAN]} : n \in 0..MaxProfiles}

InitAvailability ==
  /\ db \in {[lawyer_profiles |-> t] : t \in LawyerTables}
  /\ env = [endpoint |-> "none"]
  /\ result = NoResult
  /\ question = <<>>
  /\ candidate = None
  /\ language = En
  /\ text = <<>>
  /\ steps = 0
  /\ pc = "idle"

LawyersAvailability ==
  /\ steps < MaxCalls
  /\ \E authorization \in AuthorizationHeaders, db_raises \in BOOLEAN :
       /\ result' = lawyers_availability(authorization, db.lawyer_profiles, db_raises, steps)
       /\ env' = [endpoint |-> "/lawyers/availability", authorization |-> authorization]
  /\ steps' = steps + 1
  /\ UNCHANGED <<question, candidate, language, text, pc, db>>

NextAvailability == LawyersAvailability

SpecAvailability == InitAvailability /\ [][NextAvailability]_vars

\* C21: a GET /lawyers/availability request whose Authorization header
\* carries no valid Bearer token is answered 401 and gets no lawyer data.
C21_AvailabilityNeedsToken ==
  (env.endpoint = "/lawyers/availability" /\ get_current_user(env.authorization) = None)
    => /\ result.status = 401
       /\ "lawyers" \notin DOMAIN result

(***************************************************************************)
(* Further properties of apply_policy, on the specification Spec.          *)
(***************************************************************************)
\* the question starts with "what is" or holds "explain", in any case
AsksDefinition ==
  /\ question # <<>>
  /\ \/ LowerPiece(question[1]) = "what is"
     \/ \E i \in 1..Len(question) : LowerPiece(question[i]) = "explain"

CandidateTrimmed == strip(OrEmpty(candidate))

CandidateIsAttributed ==
  \E indicator \in source_indicators : In(indicator, lower(CandidateTrimmed))

C23_NoneWitness ==
  /\ Called
  /\ question = <<"law">>
  /\ candidate = None
  /\ result = RefusalEn

(***************************************************************************)
(* A further property of the offline responder, on SpecResponder.          *)
(***************************************************************************)
\* the distinct terms of a keyword list that occur in a text
DistinctTermsIn(keywords, txt) ==
  {keywords[j] : j \in {k \in 1..Len(keywords) : In(keywords[k], txt)}}

\* C24: the match count of every category is the number of distinct terms
\* of its keyword list that occur in the lowercased question.
C24_CountsDistinctTerms ==
  pc = "done" =>
    \A i \in Categories :
      MatchCount(OFFLINE_RESPONSE_TEMPLATES[i].keywords, lower(OrEmpty(question)))
        = Cardinality(DistinctTermsIn(OFFLINE_RESPONSE_TEMPLATES[i].keywords,
                                      lower(OrEmpty(question))))

(***************************************************************************)
(* A further property of the /chat handler, on SpecChat.                   *)
(***************************************************************************)
\* the last request was a /chat turn that returned an answer
ChatAnswered ==
  /\ env.endpoint = "chat"
  /\ result.status = 200

\* the English text the turn has to go on with: the output of apply_policy
\* for the answer of the turn, or the handler's sentence when it raised
PolicyOutput ==
  IF env.policy_raised THEN PolicyFailureSentence
  ELSE apply_policy(env.answer, env.asked_en, En)

\* the record of this turn is in the table
StoredThisTurn ==
  /\ Len(db.chats) > 0
  /\ db.chats[Len(db.chats)].timestamp = result.timestamp

\* C25: the answer of a /chat turn is the output of apply_policy (or the
\* handler's sentence when the policy raised) translated back to the
\* language of the turn, and the record stored in the turn holds that text.
C25_AnswerIsPolicyOutput ==
  ChatAnswered =>
    /\ result.answer = translate(PolicyOutput, En, OrEn(result.language), env.tr_ok)
    /\ StoredThisTurn => db.chats[Len(db.chats)].answer = result.answer

\* a stored turn in which the policy replaced the provider's text
C25_Witness ==
  /\ ChatAnswered
  /\ StoredThisTurn
  /\ ~env.policy_raised
  /\ env.answer # env.sanitized_en
  /\ result.language # En
  /\ result.answer = GoogleTranslate(env.sanitized_en, result.language)
  /\ db.chats[Len(db.chats)].answer = result.answer

(***************************************************************************)
(* src/app.py: GET /case_law and its cache _CASELAW_CACHE, a dict from     *)
(* cache_key to {'ts', 'data'}.  The dict is a sequence of entries in      *)
(* insertion order.  The development server handles requests in threads;   *)
(* a worker thread runs the handler in steps, each of which reads or       *)
(* writes the dict once: the lookup together with time.time(), the         *)
(* external search, the assignment, the len() test, sorted() and pop().    *)
(***************************************************************************)
CACHE_TTL == 600
CACHE_MAX == 64

CacheKey(q, limit) == [q |-> q, limit |-> limit]

HasKey(cache, key) == \E i \in 1..Len(cache) : cache[i].key = key

\* _CASELAW_CACHE.get(cache_key): <<entry>>, or <<>> for None
CacheGet(cache, key) ==
  IF HasKey(cache, key)
    THEN <<cache[CHOOSE i \in 1..Len(cache) : cache[i].key = key]>>
    ELSE <<>>

\* _CASELAW_CACHE[cache_key] = {'ts': now, 'data': results}: a key that is
\* in the dict keeps its place
CachePut(cache, key, ts, data) ==
  LET entry == [key |-> key, ts |-> ts, data |-> data]
  IN  IF HasKey(cache, key)
        THEN [i \in 1..Len(cache) |-> IF cache[i].key = key THEN entry ELSE cache[i]]
        ELSE Append(cache, entry)

\* sorted(_CASELAW_CACHE.items(), key=lambda kv: kv[1].get('ts', 0))[0][0]
OldestKey(cache) ==
  cache[CHOOSE i \in 1..Len(cache) :
          \A j \in 1..Len(cache) :
            \/ cache[j].ts > cache[i].ts
            \/ cache[j].ts = cache[i].ts /\ j >= i].key

\* _CASELAW_CACHE.pop(oldest_key, None)
CachePop(cache, key) ==
  LET Keep(e) == e.key # key
  IN  SelectSeq(cache, Keep)

\* an entry that is served up to and with an age of 600 seconds
IsFresh_Inclusive(now, ts) == now - ts <= CACHE_TTL

\* now - cached.get('ts', 0) < 600
IsFresh(now, ts) == now - ts < CACHE_TTL

\* int(request.args.get('limit') or 5), 5 on an exception, cut to 1..10
CaseLimit(raw) ==
  LET parsed == IF Not(raw) THEN [ok |-> TRUE, v |-> 5] ELSE int(raw)
      limit == IF parsed.ok THEN parsed.v ELSE 5
      capped == IF limit < 10 THEN limit ELSE 10
  IN  IF capped > 1 THEN capped ELSE 1

MaxCaseRequests == 2
MaxTicks == 2

WorkerThreads == {"t1", "t2"}

CaseQueries == {<<>>, <<" ", "bail">>}
CaseUsers == {None, <<"u1">>}
CaseLimits == {Null, Str(<<"0">>), Str(<<"3">>)}
CaseResults == {<<"State v. A">>}
ClockTicks == {1, CACHE_TTL - 1}

IdleThread ==
  [pc |-> "idle", req |-> 0, key |-> CacheKey(<<>>, 0), now |-> 0, found |-> FALSE, age |-> 0,
   hit |-> FALSE, searched |-> FALSE, results |-> <<>>, oldest |-> CacheKey(<<>>, 0)]

\* the cache of a process that has served n different queries, one a second,
\* none of which found a case
ServedCache(n) ==
  [i \in 1..n |-> [key |-> IF i < n THEN CacheKey(<<"query ", ToString(i)>>, 5)
                                   ELSE CacheKey(<<"bail">>, 5),
                   ts |-> i, data |-> <<>>]]

InitCaseLaw ==
  /\ \E n \in {0, CACHE_MAX} :
       /\ db = [caselaw_cache |-> ServedCache(n)]
       /\ env = [clock |-> n, ticks |-> 0, threads |-> [t \in WorkerThreads |-> IdleThread]]
  /\ result = NoResult
  /\ question = <<>>
  /\ candidate = None
  /\ language = En
  /\ text = <<>>
  /\ steps = 0
  /\ pc = "idle"

Thread(t) == env.threads[t]

SetThread(t, rec) == env' = [env EXCEPT !.threads[t] = rec]

\* time passes
Tick ==
  /\ env.ticks < MaxTicks
  /\ \E d \in ClockTicks : env' = [env EXCEPT !.clock = @ + d, !.ticks = @ + 1]
  /\ UNCHANGED <<question, candidate, language, result, text, steps, pc, db>>

\* the handler up to the cache test: 401, 400, the cached cases, or on to
\* the search
Begin(t) ==
  /\ Thread(t).pc = "idle"
  /\ steps < MaxCaseRequests
  /\ steps' = steps + 1
  /\ \E user \in CaseUsers, q_raw \in CaseQueries, limit_raw \in CaseLimits :
       LET q == strip(q_raw)
           key == CacheKey(q, CaseLimit(limit_raw))
           cached == CacheGet(db.caselaw_cache, key)
           now == env.clock
           fresh == cached # <<>> /\ IsFresh(now, cached[1].ts)
           seen == [IdleThread EXCEPT !.req = steps + 1, !.key = key, !.now = now,
                                      !.found = cached # <<>>,
                                      !.age = IF cached # <<>> THEN now - cached[1].ts ELSE 0]
       IN  IF user = None
             THEN /\ SetThread(t, [IdleThread EXCEPT !.req = steps + 1])
                  /\ result' = Failure(401, "Unauthorized")
           ELSE IF q = <<>>
             THEN /\ SetThread(t, [IdleThread EXCEPT !.req = steps + 1])
                  /\ result' = Failure(400, "Query (q) is required")
           ELSE IF fresh
             THEN /\ SetThread(t, [seen EXCEPT !.hit = TRUE, !.results = cached[1].data])
                  /\ result' = [status |-> 200, cases |-> cached[1].data]
           ELSE SetThread(t, [seen EXCEPT !.pc = "search"]) /\ UNCHANGED result
  /\ UNCHANGED <<question, candidate, language, text, pc, db>>

\* the external search: Indian Kanoon, else the official-domain search
Search(t) ==
  /\ Thread(t).pc = "search"
  /\ \E results \in CaseResults :
       SetThread(t, [Thread(t) EXCEPT !.pc = "store", !.results = results,
                                      !.searched = TRUE])
  /\ UNCHANGED <<question, candidate, language, result, text, steps, pc, db>>

Store(t) ==
  /\ Thread(t).pc = "store"
  /\ db' = [db EXCEPT !.caselaw_cache =
              CachePut(@, Thread(t).key, Thread(t).now, Thread(t).results)]
  /\ SetThread(t, [Thread(t) EXCEPT !.pc = "check"])
  /\ UNCHANGED <<question, candidate, language, result, text, steps, pc>>

Respond200(t) ==
  /\ SetThread(t, [Thread(t) EXCEPT !.pc = "idle"])
  /\ result' = [status |-> 200, cases |-> Thread(t).results]

\* if len(_CASELAW_CACHE) > 64
CheckSize(t) ==
  /\ Thread(t).pc = "check"
  /\ IF Len(db.caselaw_cache) > CACHE_MAX
       THEN SetThread(t, [Thread(t) EXCEPT !.pc = "sort"]) /\ UNCHANGED result
       ELSE Respond200(t)
  /\ UNCHANGED <<question, candidate, language, text, steps, pc, db>>

PickOldest(t) ==
  /\ Thread(t).pc = "sort"
  /\ IF db.caselaw_cache = <<>>
       THEN Respond200(t)
       ELSE /\ SetThread(t, [Thread(t) EXCEPT !.pc = "pop",
                                              !.oldest = OldestKey(db.caselaw_cache)])
            /\ UNCHANGED result
  /\ UNCHANGED <<question, candidate, language, text, steps, pc, db>>

PopOldest(t) ==
  /\ Thread(t).pc = "pop"
  /\ db' = [db EXCEPT !.caselaw_cache = CachePop(@, Thread(t).oldest)]
  /\ Respond200(t)
  /\ UNCHANGED <<question, candidate, language, text, steps, pc>>

NextCaseLaw ==
  \/ Tick
  \/ \E t \in WorkerThreads : Begin(t)
  \/ \E t \in WorkerThreads : Search(t)
  \/ \E t \in WorkerThreads : Store(t)
  \/ \E t \in WorkerThreads : CheckSize(t)
  \/ \E t \in WorkerThreads : PickOldest(t)
  \/ \E t \in WorkerThreads : PopOldest(t)

SpecCaseLaw == InitCaseLaw /\ [][NextCaseLaw]_vars

\* The entries of the cache under one key (a dict holds at most one).
EntriesFor(key) ==
  {i \in 1..Len(db.caselaw_cache) : db.caselaw_cache[i].key = key}

\* Thread t takes up a request with a query in this step.
TakesUp(t) ==
  /\ env'.threads[t].req # env.threads[t].req
  /\ env'.threads[t].key.q # <<>>

\* Thread t assigns its result to the cache in this step.
Assigns(t) ==
  /\ env.threads[t].pc = "store"
  /\ env'.threads[t].pc = "check"

C26_FreshWitness ==
  \E t \in WorkerThreads :
    Thread(t).hit /\ Thread(t).age = 599 /\ Thread(t).pc = "idle"

AllFinished == \A t \in WorkerThreads : Thread(t).pc = "idle"

\* C27: once every request has finished, the cache holds at most 64 entries.
C27_CacheAtMost64AtRest == AllFinished => Len(db.caselaw_cache) <= 64

\* a sequential insertion into a full cache removes the entry with the
\* oldest timestamp and leaves 64 entries
C27_SequentialEviction ==
  /\ AllFinished
  /\ Len(db.caselaw_cache) = 64
  /\ steps > 0
  /\ \E i \in 1..64 : db.caselaw_cache[i].key.q = <<"bail">>
  /\ \A i \in 1..64 : db.caselaw_cache[i].key # CacheKey(<<"query ", "1">>, 5)

\* The request of this step is a booking request.
BookingRequest ==
  /\ steps' # steps
  /\ env'.endpoint \in {"/book-lawyer", "/lawyers/book"}

\* The subscription_id sent is the id of an active purchase of the user.
Entitled(user, sent, rows) ==
  /\ user # None
  /\ sent.type # "null"
  /\ int(sent).ok
  /\ \E i \in 1..Len(rows) :
       /\ rows[i].id = int(sent).v
       /\ rows[i].user_id = user
       /\ rows[i].status = "active"

\* C28: the lawyer_bookings table changes only by one new row, of a booking
\* request whose subscription_id is the id of an active purchase of the
\* requesting user and which is answered 200; every booking request without
\* such a subscription_id is answered with an error status and leaves the
\* table as it was.
C28_BookingNeedsOwnActiveSubscription ==
  [][/\ db'.lawyer_bookings # db.lawyer_bookings =>
          /\ BookingRequest
          /\ Entitled(env'.user, env'.sent, db.subscription_purchases)
          /\ result'.status = 200
          /\ Len(db'.lawyer_bookings) = Len(db.lawyer_bookings) + 1
          /\ SubSeq(db'.lawyer_bookings, 1, Len(db.lawyer_bookings)) = db.lawyer_bookings
          /\ db'.lawyer_bookings[Len(db'.lawyer_bookings)].user_id = env'.user
          /\ db'.lawyer_bookings[Len(db'.lawyer_bookings)].subscription_id = int(env'.sent).v
     /\ BookingRequest /\ ~Entitled(env'.user, env'.sent, db.subscription_purchases) =>
          /\ result'.status \in {400, 401, 403, 404}
          /\ db'.lawyer_bookings = db.lawyer_bookings]_vars

\* a booking is recorded for one user and a request of another user with the
\* same subscription id has been refused
C28_Witness ==
  /\ Len(db.lawyer_bookings) = 1
  /\ env.endpoint \in {"/book-lawyer", "/lawyers/book"}
  /\ result.status = 403
  /\ env.user # db.lawyer_bookings[1].user_id
  /\ int(env.sent).v = db.lawyer_bookings[1].subscription_id

\* C30: no two rows of lawyer_bookings have the same booking_id.
C30_BookingIdsDistinct ==
  \A i, j \in 1..Len(db.lawyer_bookings) :
    i # j => db.lawyer_bookings[i].booking_id # db.lawyer_bookings[j].booking_id

(***************************************************************************)
(* src/app.py: POST /auth/register, with the users table of                *)
(* src/utils/db.py.  A worker thread runs the handler in steps, one for    *)
(* each statement sent to the database: the SELECT of get_user_by_email,   *)
(* the INSERT of create_user and the UPDATE that marks the row verified.   *)
(***************************************************************************)
\* len(password) of the passwords sent
PasswordLen(password) ==
  IF password = <<>> THEN 0
  ELSE CASE password[1] = "12345" -> 5
         [] password[1] = "secret" -> 6
         [] password[1] = "hunter22" -> 8

\* generate_password_hash: a text made from the password, its salt left out
hash_password(password) == <<"pbkdf2:sha256$">> \o password

\* get_user_by_email: SELECT ... WHERE email = ? and fetchone()
get_user_by_email(users, email) ==
  IF \E i \in 1..Len(users) : users[i].email = email
    THEN <<users[CHOOSE i \in 1..Len(users) : users[i].email = email]>>
    ELSE <<>>

\* the INSERT into a table whose email column takes any text
create_user_NoUnique(users, email, password_hash, verification_token, created_at) ==
  LET row == [id |-> Len(users) + 1, email |-> email, password_hash |-> password_hash,
              is_verified |-> 0, verification_token |-> verification_token,
              created_at |-> created_at, verified_at |-> Null]
  IN  [ok |-> TRUE, users |-> Append(users, row), lastrowid |-> row.id]

\* create_user: the row gets the next id; email is UNIQUE, a second row with
\* the same email raises
create_user(users, email, password_hash, verification_token, created_at) ==
  LET row == [id |-> Len(users) + 1, email |-> email, password_hash |-> password_hash,
              is_verified |-> 0, verification_token |-> verification_token,
              created_at |-> created_at, verified_at |-> Null]
  IN  IF \E i \in 1..Len(users) : users[i].email = email
        THEN [ok |-> FALSE, users |-> users]
        ELSE [ok |-> TRUE, users |-> Append(users, row), lastrowid |-> row.id]

\* UPDATE users SET is_verified = 1, verification_token = NULL,
\* verified_at = ? WHERE id = ?
mark_verified(users, timestamp, user_id) ==
  [i \in 1..Len(users) |->
     IF users[i].id = user_id
       THEN [users[i] EXCEPT !.is_verified = 1, !.verification_token = Null,
                             !.verified_at = Str(timestamp)]
       ELSE users[i]]

MaxRegistrations == 3

RegisterThreads == {"t1", "t2"}

RegisterData ==
  [email : {None, <<" ", "Asha@Mail.in">>, <<"asha@mail.in">>, <<"ravi@mail.in">>},
   password : {None, <<"12345">>, <<"secret">>, <<"hunter22">>}]

Timestamps == {<<"2025-01-01T10:00:00+00:00">>}

IdleRegister ==
  [pc |-> "idle", req |-> 0, email |-> <<>>, password_hash |-> <<>>, timestamp |-> <<>>,
   user_id |-> 0, status |-> 0]

InitRegister ==
  /\ db = [users |-> <<>>]
  /\ env = [threads |-> [t \in RegisterThreads |-> IdleRegister]]
  /\ result = NoResult
  /\ question = <<>>
  /\ candidate = None
  /\ language = En
  /\ text = <<>>
  /\ steps = 0
  /\ pc = "idle"

Answer(t, rec, status, body) ==
  /\ env' = [env EXCEPT !.threads[t] =
               [IdleRegister EXCEPT !.req = rec.req, !.status = status]]
  /\ result' = [status |-> status] @@ body

\* the handler up to the answer of get_user_by_email
RegisterCheck(t) ==
  /\ env.threads[t].pc = "idle"
  /\ steps < MaxRegistrations
  /\ steps' = steps + 1
  /\ \E data \in RegisterData, timestamp \in Timestamps :
       LET email == lower(strip(OrEmpty(data.email)))
           password == OrEmpty(data.password)
           existing_user == get_user_by_email(db.users, email)
           rec == [IdleRegister EXCEPT !.req = steps + 1, !.email = email,
                                       !.password_hash = hash_password(password),
                                       !.timestamp = timestamp]
       IN  IF email = <<>> \/ password = <<>>
             THEN Answer(t, rec, 400, [error |-> "Email and password are required"])
           ELSE IF PasswordLen(password) < 6
             THEN Answer(t, rec, 400, [error |-> "Password must be at least 6 characters"])
           ELSE IF existing_user # <<>>
             THEN Answer(t, rec, 409, [error |-> "User with this email already exists"])
           ELSE /\ env' = [env EXCEPT !.threads[t] = [rec EXCEPT !.pc = "create"]]
                /\ UNCHANGED result
  /\ UNCHANGED <<question, candidate, language, text, pc, db>>

\* create_user, and the 500 of its exception
RegisterCreate(t) ==
  /\ env.threads[t].pc = "create"
  /\ \E db_raises \in BOOLEAN :
       LET rec == env.threads[t]
           created == create_user(db.users, rec.email, rec.password_hash, Null,
                                  rec.timestamp)
       IN  IF db_raises \/ ~created.ok
             THEN /\ Answer(t, rec, 500, [error |-> "Failed to create user account"])
                  /\ UNCHANGED db
             ELSE /\ db' = [db EXCEPT !.users = created.users]
                  /\ env' = [env EXCEPT !.threads[t] =
                               [rec EXCEPT !.pc = "verify", !.user_id = created.lastrowid]]
                  /\ UNCHANGED result
  /\ UNCHANGED <<question, candidate, language, text, steps, pc>>

\* the UPDATE that marks the new row verified, its exception only logged
RegisterVerify(t) ==
  /\ env.threads[t].pc = "verify"
  /\ \E db_raises \in BOOLEAN :
       LET rec == env.threads[t]
       IN  /\ db' = IF db_raises THEN db
                    ELSE [db EXCEPT !.users = mark_verified(@, rec.timestamp, rec.user_id)]
           /\ Answer(t, rec, 201, [message |-> "Registration successful",
                                   user_id |-> rec.user_id])
  /\ UNCHANGED <<question, candidate, language, text, steps, pc>>

NextRegister ==
  \/ \E t \in RegisterThreads : RegisterCheck(t)
  \/ \E t \in RegisterThreads : RegisterCreate(t)
  \/ \E t \in RegisterThreads : RegisterVerify(t)

SpecRegister == InitRegister /\ [][NextRegister]_vars

\* The emails that the addresses sent are in lower case.
LowercasedEmails == {<<"asha@mail.in">>, <<"ravi@mail.in">>}

\* Row i of the users table is changed by this step, and by nothing but the
\* UPDATE of the thread that inserted it.
VerifiedByItsCreator(i) ==
  \E t \in RegisterThreads :
    /\ env.threads[t].pc = "verify"
    /\ env'.threads[t].pc = "idle"
    /\ env.threads[t].user_id = db.users[i].id
    /\ env.threads[t].email = db.users[i].email
    /\ db'.users[i] = [db.users[i] EXCEPT !.is_verified = 1,
                                          !.verified_at = db'.users[i].verified_at]

\* C29: the users table never holds two rows with the same email, and every
\* email in it is in lower case; a step adds at most one row, and only for an
\* email that has no row; a row of the table is never removed and is changed
\* only by the verification UPDATE of the registration that inserted it, so a
\* registration for an email that has a row adds nothing and changes nothing.
C29_OneAccountPerEmail ==
  [][/\ \A i, j \in 1..Len(db'.users) :
          i # j => db'.users[i].email # db'.users[j].email
     /\ \A i \in 1..Len(db'.users) : db'.users[i].email \in LowercasedEmails
     /\ Len(db'.users) \in {Len(db.users), Len(db.users) + 1}
     /\ Len(db'.users) = Len(db.users) + 1 =>
          \A i \in 1..Len(db.users) :
            db.users[i].email # db'.users[Len(db'.users)].email
     /\ \A i \in 1..Len(db.users) :
          db'.users[i] # db.users[i] => VerifiedByItsCreator(i)]_vars

\* a thread found no row for its email and is about to insert it, and the
\* table now holds a row with that email, inserted by the other thread
C29_Witness ==
  \E t \in RegisterThreads :
    /\ env.threads[t].pc = "create"
    /\ \E i \in 1..Len(db.users) : db.users[i].email = env.threads[t].email

\* a registration for an email with an account was answered 409
C29_ConflictWitness ==
  /\ \E t \in RegisterThreads : env.threads[t].status = 409
  /\ Len(db.users) = 1
  /\ db.users[1].is_verified = 1

====
